---- MODULE Spec2Model ----
(***************************************************************************)
(* Cross-sectional momentum strategy (strategy1.py, class AlgoEvent).      *)
(* The strategy object is driven by the platform's callbacks: start, then  *)
(* any sequence of on_bulkdatafeed, on_marketdatafeed and on_orderfeed.    *)
(* Prices are positive integers; every quotient the code computes in       *)
(* floating point is kept here as an exact fraction <<numerator,           *)
(* denominator>> with a positive denominator.                              *)
(***************************************************************************)
EXTENDS Integers, Sequences, FiniteSets, TLC

(***************************************************************************)
(* Strategy parameters (AlgoEvent.__init__) and the bounds of the model    *)
(***************************************************************************)
\* the trading universe: the first three symbols of the code's list
instrument_list == <<"SPY", "QQQ", "IWM">>

\* a symbol the feed may deliver that is not in the universe
Outside == "VIX"

\* lookback window of the momentum, in closes (120 in the code)
lookback_period == 2

\* reference ticks per rebalance cycle (20 in the code)
rebalance_period == 2

\* hold_N_assets ranges over 0..MaxHold
MaxHold == 2

\* closes kept for the reference instrument before its feed stops
MaxRefHist == 4

\* closes kept for every other instrument before its feed stops
MaxHist == 2

\* bars per instrument in a bulk load
MaxBulk == 2

\* the closes the feed delivers
Prices == {1, 2}

\* the values getPortfolioValue() returns
PortfolioValues == {6, 12}

Universe == {instrument_list[i] : i \in 1..Len(instrument_list)}

AllInstruments == Universe \cup {Outside}

\* the key sets of the bulk loads: one instrument, or all of them
BulkKeys == {{inst} : inst \in AllInstruments} \cup {AllInstruments}

\* the feed of an instrument stops when its history holds this many closes;
\* the second instrument delivers one close more than the others, so that a
\* close of its can arrive between two rebalance cycles
HistCap(inst) ==
    IF inst = instrument_list[1] THEN MaxRefHist
    ELSE IF inst = instrument_list[2] THEN MaxHist + 1
    ELSE MaxHist

VARIABLES
    evt,                \* "None" until start() installs the handler
    hold_N_assets,      \* self.hold_N_assets
    rebalance_counter,  \* self.rebalance_counter
    historical_data,    \* self.historical_data: instrument -> list of closes
    event,              \* the callback the platform invoked last
    outcome,            \* where that callback returned
    sent,               \* the orders evt.sendOrder() received during it
    momentum_scores,    \* locals of the last rebalance cycle that ranked
    longs,
    shorts,
    flats,
    portfolio_value,    \* getPortfolioValue() as read by that cycle
    ref_phase,          \* ticks of instrument_list[0] so far, modulo the period
    called,             \* the analysis or risk function applied last, or "none"
    args,               \* the argument it is applied to
    result              \* what it returned

vars == <<evt, hold_N_assets, rebalance_counter, historical_data, event, outcome,
          sent, momentum_scores, longs, shorts, flats, portfolio_value,
          ref_phase, called, args, result>>

\* the variables of the analysis and risk functions
function_vars == <<called, args, result>>

(***************************************************************************)
(* Python list and arithmetic helpers                                      *)
(***************************************************************************)
Min(a, b) == IF a < b THEN a ELSE b

Max(a, b) == IF a < b THEN b ELSE a

InSeq(x, s) == \E i \in 1..Len(s) : s[i] = x

\* s[-k] for k >= 1 (s[-0] is s[0])
PyFromEnd(s, k) == IF k = 0 THEN s[1] ELSE s[Len(s) - k + 1]

\* s[:k] for k >= 0
PyHead(s, k) == SubSeq(s, 1, Min(k, Len(s)))

\* s[-k:] for k >= 0; -0 is 0, so s[-0:] is the whole list
PyTail(s, k) == IF k = 0 THEN s ELSE SubSeq(s, Max(1, Len(s) - k + 1), Len(s))

\* fractions <<n, d>>, d > 0
RatLess(a, b) == a[1] * b[2] < b[1] * a[2]

RatEq(a, b) == a[1] * b[2] = b[1] * a[2]

RECURSIVE BarSeqs(_)
\* the lists of n closes
BarSeqs(n) ==
    IF n = 0 THEN {<< >>}
    ELSE {Append(s, p) : s \in BarSeqs(n - 1), p \in Prices}

\* the bar lists of the bulk loads: MaxBulk bars for an instrument
BulkBars == BarSeqs(MaxBulk)

(***************************************************************************)
(* The rebalance cycle (on_marketdatafeed, lines 74-129)                   *)
(***************************************************************************)
\* line 76: some instrument has fewer closes than the lookback
NotEnoughData(hist) == \E inst \in Universe : Len(hist[inst]) < lookback_period

\* the return since the first close of the history
momentum_since_first(prices) ==
    <<PyFromEnd(prices, 1) - prices[1], prices[1]>>

\* the momentum as of the close before the latest one
momentum_before_latest(prices) ==
    IF Len(prices) > lookback_period
    THEN <<PyFromEnd(prices, 2) - PyFromEnd(prices, lookback_period + 1),
           PyFromEnd(prices, lookback_period + 1)>>
    ELSE <<PyFromEnd(prices, 1) - PyFromEnd(prices, lookback_period),
           PyFromEnd(prices, lookback_period)>>

\* line 86: prices[-1] / prices[-lookback] - 1
momentum(prices) ==
    <<PyFromEnd(prices, 1) - PyFromEnd(prices, lookback_period),
      PyFromEnd(prices, lookback_period)>>

\* lines 82-87
Scores(hist) == [inst \in Universe |-> momentum(hist[inst])]

\* x put before the items of equal key: an ascending sort, reversed
InsertRankedUnstable(s, x, scores) ==
    LET k == Cardinality({i \in 1..Len(s) : RatLess(scores[x], scores[s[i]])})
    IN  SubSeq(s, 1, k) \o <<x>> \o SubSeq(s, k + 1, Len(s))

\* where sorted(..., reverse=True) puts x in an already sorted list: behind
\* every item whose key is not smaller (the sort is stable)
InsertRanked(s, x, scores) ==
    LET k == Cardinality({i \in 1..Len(s) : ~RatLess(scores[s[i]], scores[x])})
    IN  SubSeq(s, 1, k) \o <<x>> \o SubSeq(s, k + 1, Len(s))

RECURSIVE SortedDesc(_, _)
\* line 91: the keys of momentum_scores, which was filled in universe order
SortedDesc(n, scores) ==
    IF n = 0 THEN << >>
    ELSE InsertRanked(SortedDesc(n - 1, scores), instrument_list[n], scores)

ranked_instruments(scores) == SortedDesc(Len(instrument_list), scores)

\* line 94
Longs(ranked, K) == PyHead(ranked, K)

\* line 95
Shorts(ranked, K) == PyTail(ranked, K)

\* line 98
Flats(ls, ss) ==
    SelectSeq(instrument_list, LAMBDA inst : ~InSeq(inst, ls) /\ ~InSeq(inst, ss))

\* the whole portfolio value put into every position
target_quantity_undivided(pv, num_positions, last_price, sign) ==
    <<sign * pv, last_price>>

\* lines 111, 121, 128: capital_per_position / last_price, signed
target_quantity(pv, num_positions, last_price, sign) ==
    <<sign * pv, num_positions * last_price>>

RECURSIVE OrdersFor(_, _, _, _, _)
\* the sendOrder calls of one of the loops at lines 114, 119, 125
OrdersFor(insts, hist, pv, num_positions, sign) ==
    IF insts = << >> THEN << >>
    ELSE <<[instrument |-> Head(insts),
            quantity   |-> IF sign = 0 THEN <<0, 1>>
                           ELSE target_quantity(pv, num_positions,
                                    PyFromEnd(hist[Head(insts)], 1), sign),
            mode       |-> "TARGET_SHARES"]>>
         \o OrdersFor(Tail(insts), hist, pv, num_positions, sign)

\* lines 105-129
ExecuteTrades(ls, ss, fs, hist, pv) ==
    LET num_positions == Len(ls) + Len(ss)
    IN  IF num_positions = 0 THEN << >>
        ELSE OrdersFor(fs, hist, pv, num_positions, 0)
             \o OrdersFor(ls, hist, pv, num_positions, 1)
             \o OrdersFor(ss, hist, pv, num_positions, -1)

(***************************************************************************)
(* Construction and the callbacks                                          *)
(***************************************************************************)
NoCycle ==
    /\ momentum_scores' = << >>
    /\ longs' = << >>
    /\ shorts' = << >>
    /\ flats' = << >>
    /\ portfolio_value' = 0

Init ==
    /\ evt = "None"
    /\ hold_N_assets \in 0..MaxHold
    /\ rebalance_counter = 0
    /\ historical_data = << >>
    /\ event = "__init__"
    /\ outcome = "constructed"
    /\ sent = << >>
    /\ momentum_scores = << >>
    /\ longs = << >>
    /\ shorts = << >>
    /\ flats = << >>
    /\ portfolio_value = 0
    /\ ref_phase = 0
    /\ called = "none"
    /\ args = << >>
    /\ result = << >>

start ==
    /\ evt = "None"
    /\ evt' = "AlgoEvtHandler"
    /\ historical_data' = [inst \in Universe |-> << >>]
    /\ event' = "start"
    /\ outcome' = "started"
    /\ sent' = << >>
    /\ NoCycle
    /\ UNCHANGED <<hold_N_assets, rebalance_counter, ref_phase>>

\* bd maps every instrument of insts to the bars with closes bars
on_bulkdatafeed(isSync, insts, bars) ==
    /\ evt # "None"
    /\ \A inst \in insts \cap Universe :
           Len(historical_data[inst]) + Len(bars) <= HistCap(inst)
    /\ historical_data' =
           IF isSync
           THEN [inst \in DOMAIN historical_data |->
                    IF inst \in Universe /\ inst \in insts
                    THEN historical_data[inst] \o bars
                    ELSE historical_data[inst]]
           ELSE historical_data
    /\ event' = "bulk"
    /\ outcome' = "loaded"
    /\ sent' = << >>
    /\ NoCycle
    /\ UNCHANGED <<evt, hold_N_assets, rebalance_counter, ref_phase>>

\* a rolling window that keeps the last lookback_period closes
AppendCloseRolling(hd, instrument, close) ==
    IF instrument \in DOMAIN hd
    THEN [hd EXCEPT ![instrument] =
             IF Len(@) < lookback_period THEN Append(@, close)
             ELSE Append(Tail(@), close)]
    ELSE hd

\* lines 57-58
AppendClose(hd, instrument, close) ==
    IF instrument \in DOMAIN hd
    THEN [hd EXCEPT ![instrument] = Append(@, close)]
    ELSE hd

\* a counter that no tick advances
NextCounterStuck(instrument, counter) == counter

\* a counter that counts the ticks of every universe instrument
NextCounterUniverse(instrument, counter) ==
    IF instrument \in Universe THEN counter + 1 ELSE counter

\* the counter advancing on every tick
NextCounterAnyTick(instrument, counter) == counter + 1

\* lines 63-64
NextCounter(instrument, counter) ==
    IF instrument = instrument_list[1] THEN counter + 1 ELSE counter

\* the counter left where it was when the cycle started
counter_kept == rebalance_period

\* line 72
counter_reset == 0

on_marketdatafeed(instrument, close) ==
    /\ evt # "None"
    /\ instrument \in Universe => Len(historical_data[instrument]) < HistCap(instrument)
    /\ LET hist == AppendClose(historical_data, instrument, close)
           counter == NextCounter(instrument, rebalance_counter)
       IN  /\ historical_data' = hist
           /\ event' = "tick"
           /\ ref_phase' = IF instrument = instrument_list[1]
                           THEN (ref_phase + 1) % rebalance_period
                           ELSE ref_phase
           /\ IF counter < rebalance_period
              THEN \* line 68
                   /\ rebalance_counter' = counter
                   /\ outcome' = "no_rebalance"
                   /\ sent' = << >>
                   /\ NoCycle
              ELSE /\ rebalance_counter' = counter_reset
                   /\ IF NotEnoughData(hist)
                      THEN \* line 78
                           /\ outcome' = "not_enough_data"
                           /\ sent' = << >>
                           /\ NoCycle
                      ELSE \* lines 81-98: the locals of the cycle, each
                           \* computed once
                           \E scores \in {Scores(hist)} :
                           \E ranked \in {ranked_instruments(scores)} :
                           \E ls \in {Longs(ranked, hold_N_assets)},
                              ss \in {Shorts(ranked, hold_N_assets)} :
                           \E fs \in {Flats(ls, ss)} :
                               /\ momentum_scores' = scores
                               /\ longs' = ls
                               /\ shorts' = ss
                               /\ flats' = fs
                               /\ outcome' = IF Len(ls) + Len(ss) = 0
                                              THEN "no_positions"  \* line 109
                                              ELSE "traded"
                               /\ \E pv \in PortfolioValues :
                                      /\ portfolio_value' = pv
                                      /\ sent' = ExecuteTrades(ls, ss, fs, hist, pv)
    /\ UNCHANGED <<evt, hold_N_assets>>

\* a rejection that makes the next tick rebalance again
on_orderfeed_retry(is_filled, is_rejected) ==
    /\ evt # "None"
    /\ event' = "order"
    /\ outcome' = "acknowledged"
    /\ sent' = << >>
    /\ NoCycle
    /\ rebalance_counter' = IF ~is_filled /\ is_rejected
                            THEN rebalance_period
                            ELSE rebalance_counter
    /\ UNCHANGED <<evt, hold_N_assets, historical_data, ref_phase>>

on_orderfeed(is_filled, is_rejected) ==
    /\ evt # "None"
    /\ event' = "order"
    \* lines 137-140 only write a log line, for a fill or else for a rejection
    /\ outcome' = "acknowledged"
    /\ sent' = << >>
    /\ NoCycle
    /\ UNCHANGED <<evt, hold_N_assets, rebalance_counter, historical_data, ref_phase>>

Next ==
    \/ start /\ UNCHANGED function_vars
    \/ \E insts \in BulkKeys, bars \in BulkBars :
           on_bulkdatafeed(TRUE, insts, bars) /\ UNCHANGED function_vars
    \/ on_bulkdatafeed(FALSE, {}, << >>) /\ UNCHANGED function_vars
    \/ \E instrument \in AllInstruments, close \in Prices :
           on_marketdatafeed(instrument, close) /\ UNCHANGED function_vars
    \/ \E is_filled \in BOOLEAN, is_rejected \in BOOLEAN :
           on_orderfeed(is_filled, is_rejected) /\ UNCHANGED function_vars

Spec == Init /\ [][Next]_vars

(***************************************************************************)
(* The strategy driven by a live feed.  The closes of the reference        *)
(* instrument arrive as ticks only, and its feed keeps delivering while    *)
(* the model has room for another close: a tick of the reference that      *)
(* stays possible is eventually taken.  Nothing is assumed of the other    *)
(* instruments, of the bulk loads or of the acknowledgements.              *)
(***************************************************************************)
ReferenceFeed ==
    \E close \in Prices :
        on_marketdatafeed(instrument_list[1], close) /\ UNCHANGED function_vars

LiveNext ==
    \/ start /\ UNCHANGED function_vars
    \/ \E inst \in AllInstruments \ {instrument_list[1]}, bars \in BulkBars :
           on_bulkdatafeed(TRUE, {inst}, bars) /\ UNCHANGED function_vars
    \/ \E instrument \in AllInstruments, close \in Prices :
           on_marketdatafeed(instrument, close) /\ UNCHANGED function_vars
    \/ \E is_filled \in BOOLEAN, is_rejected \in BOOLEAN :
           on_orderfeed(is_filled, is_rejected) /\ UNCHANGED function_vars

LiveSpec == Init /\ [][LiveNext]_vars /\ WF_vars(ReferenceFeed)

(***************************************************************************)
(* Exact arithmetic for backtest_analysis.py.  The code computes in        *)
(* floating point; here every value is the exact fraction, with numerator  *)
(* and denominator kept as naturals of any size: a natural is the sequence *)
(* of its digits in base Limb, least significant first, and zero is << >>. *)
(***************************************************************************)
Limb == 10000

RECURSIVE BigOf(_)
BigOf(n) == IF n = 0 THEN << >> ELSE <<n % Limb>> \o BigOf(n \div Limb)

\* drops the zero digits at the most significant end
RECURSIVE BigTrim(_)
BigTrim(a) ==
    IF a # << >> /\ a[Len(a)] = 0 THEN BigTrim(SubSeq(a, 1, Len(a) - 1)) ELSE a

RECURSIVE BigTimesCarry(_, _, _)
BigTimesCarry(a, m, carry) ==
    IF a = << >>
    THEN BigOf(carry)
    ELSE LET t == Head(a) * m + carry
         IN  <<t % Limb>> \o BigTimesCarry(Tail(a), m, t \div Limb)

\* a times the small natural m
BigTimes(a, m) == IF m = 0 THEN << >> ELSE BigTimesCarry(a, m, 0)

RECURSIVE BigAddCarry(_, _, _)
BigAddCarry(a, b, carry) ==
    IF a = << >> /\ b = << >>
    THEN BigOf(carry)
    ELSE LET x == IF a = << >> THEN 0 ELSE Head(a)
             y == IF b = << >> THEN 0 ELSE Head(b)
             t == x + y + carry
         IN  <<t % Limb>> \o BigAddCarry(IF a = << >> THEN a ELSE Tail(a),
                                         IF b = << >> THEN b ELSE Tail(b),
                                         t \div Limb)

BigAdd(a, b) == BigAddCarry(a, b, 0)

BigLess(a, b) ==
    IF Len(a) # Len(b)
    THEN Len(a) < Len(b)
    ELSE \E i \in 1..Len(a) :
             /\ a[i] < b[i]
             /\ \A j \in (i + 1)..Len(a) : a[j] = b[j]

RECURSIVE BigSubBorrow(_, _, _)
BigSubBorrow(a, b, borrow) ==
    IF a = << >>
    THEN << >>
    ELSE LET y == (IF b = << >> THEN 0 ELSE Head(b)) + borrow
             t == Head(a) - y
         IN  <<IF t < 0 THEN t + Limb ELSE t>>
                 \o BigSubBorrow(Tail(a), IF b = << >> THEN b ELSE Tail(b),
                                 IF t < 0 THEN 1 ELSE 0)

\* a - b, for b <= a
BigSub(a, b) == BigTrim(BigSubBorrow(a, b, 0))

RECURSIVE BigMul(_, _)
BigMul(a, b) ==
    IF a = << >> \/ b = << >>
    THEN << >>
    ELSE LET rest == BigMul(a, Tail(b))
         IN  BigAdd(BigTimes(a, Head(b)),
                    IF rest = << >> THEN rest ELSE <<0>> \o rest)

\* a fraction: its sign, and the naturals num / den, den not zero; zero is
\* not negative
QMake(neg, num, den) == [neg |-> neg /\ num # << >>, num |-> num, den |-> den]

\* the fraction n / d of two small integers, d > 0
QOf(n, d) == QMake(n < 0, BigOf(IF n < 0 THEN -n ELSE n), BigOf(d))

QZero == QOf(0, 1)

QOne == QOf(1, 1)

QIsZero(x) == x.num = << >>

QNeg(x) == QMake(~x.neg, x.num, x.den)

QAbs(x) == QMake(FALSE, x.num, x.den)

QAdd(x, y) ==
    LET a == BigMul(x.num, y.den)
        b == BigMul(y.num, x.den)
        d == BigMul(x.den, y.den)
    IN  IF x.neg = y.neg
        THEN QMake(x.neg, BigAdd(a, b), d)
        ELSE IF BigLess(a, b)
             THEN QMake(y.neg, BigSub(b, a), d)
             ELSE QMake(x.neg, BigSub(a, b), d)

QSub(x, y) == QAdd(x, QNeg(y))

QMul(x, y) == QMake(x.neg # y.neg, BigMul(x.num, y.num), BigMul(x.den, y.den))

\* x / y, for y not zero
QDiv(x, y) == QMake(x.neg # y.neg, BigMul(x.num, y.den), BigMul(x.den, y.num))

QLess(x, y) ==
    LET a == BigMul(x.num, y.den)
        b == BigMul(y.num, x.den)
    IN  IF x.neg # y.neg
        THEN x.neg
        ELSE IF x.neg THEN BigLess(b, a) ELSE BigLess(a, b)

QEq(x, y) == ~QLess(x, y) /\ ~QLess(y, x)

QLeq(x, y) == ~QLess(y, x)

RECURSIVE QPow(_, _)
QPow(x, e) == IF e = 0 THEN QOne ELSE QMul(QPow(x, e - 1), x)

\* the sum and the product of a sequence of fractions
RECURSIVE QSum(_)
QSum(s) == IF s = << >> THEN QZero ELSE QAdd(Head(s), QSum(Tail(s)))

(***************************************************************************)
(* backtest_analysis.py: the performance metrics, the maximum drawdown and *)
(* the trade distribution.  A return is a fraction <<numerator,            *)
(* denominator>> greater than -1; a trade is a record of its pnl and its   *)
(* duration.                                                               *)
(***************************************************************************)
\* periods per year, the literal of lines 67, 69, 75 and 107
TradingDays == 252

\* the longest return series
MaxReturns == 3

\* the longest trade list
MaxTrades == 3

\* the pnl and the duration of a trade
TradePnls == {-1, 0, 1}

TradeDurations == {1, 2}

\* the returns of one period: -0.5, 0, 0.5 and 1
PeriodReturns == {<<-1, 2>>, <<0, 1>>, <<1, 2>>, <<1, 1>>}

RECURSIVE SeqsUpTo(_, _)
SeqsUpTo(S, n) ==
    IF n = 0
    THEN {<< >>}
    ELSE LET shorter == SeqsUpTo(S, n - 1)
         IN  shorter \cup {Append(s, x) : s \in shorter, x \in S}

\* a five-period series with three winning periods
ExampleReturns == << <<1, 100>>, <<-2, 100>>, <<3, 100>>, <<-1, 100>>, <<2, 100>> >>

ReturnInputs == SeqsUpTo(PeriodReturns, MaxReturns) \cup {ExampleReturns}

TradeInputs ==
    SeqsUpTo([pnl : TradePnls, duration : TradeDurations], MaxTrades)

\* line 63: pd.Series(returns)
Series(returns) ==
    [i \in 1..Len(returns) |-> QOf(returns[i][1], returns[i][2])]

\* the returns added up instead of compounded
prod_simple(returns, t) == QAdd(QOne, QSum(SubSeq(returns, 1, t)))

\* (1 + returns).prod() over the first t periods
RECURSIVE prod(_, _)
prod(returns, t) ==
    IF t = 0 THEN QOne ELSE QMul(prod(returns, t - 1), QAdd(QOne, returns[t]))

\* Series.mean()
mean(s) == QDiv(QSum(s), QOf(Len(s), 1))

\* returns[returns > 0] and returns[returns < 0]
Wins(returns) == SelectSeq(returns, LAMBDA r : QLess(QZero, r))

Losses(returns) == SelectSeq(returns, LAMBDA r : QLess(r, QZero))

\* line 87
cumprod(returns) == [t \in 1..Len(returns) |-> prod(returns, t)]

\* the first period taken for the peak of every later one
running_first(cumulative) == [t \in 1..Len(cumulative) |-> cumulative[1]]

\* line 88: expanding().max()
running_max(cumulative) ==
    [t \in 1..Len(cumulative) |->
        cumulative[CHOOSE i \in 1..t :
                       \A j \in 1..t : QLeq(cumulative[j], cumulative[i])]]

\* lines 85-90, for a non-empty series
calculate_max_drawdown(returns) ==
    LET cumulative == cumprod(returns)
        peak == running_max(cumulative)
        drawdown == [t \in 1..Len(returns) |->
                        QDiv(QSub(cumulative[t], peak[t]), peak[t])]
    IN  drawdown[CHOOSE i \in 1..Len(returns) :
                     \A j \in 1..Len(returns) : QLeq(drawdown[i], drawdown[j])]

\* line 67: base ** (252 / n) - 1, kept as its base and its exponent because
\* the power is irrational in general
Annualized(base, n) == [base |-> base, exponent |-> <<TradingDays, n>>]

\* float('inf')
QInf == [neg |-> FALSE, num |-> BigOf(1), den |-> << >>]

\* what a division by zero leaves
DividedByZero == [neg |-> FALSE, num |-> << >>, den |-> << >>]

\* the profit factor guarded by the winning periods instead of the losing
ProfitFactorGuardedByWins(returns) ==
    IF Wins(returns) # << >>
    THEN IF QIsZero(QSum(Losses(returns)))
         THEN DividedByZero
         ELSE QAbs(QDiv(QSum(Wins(returns)), QSum(Losses(returns))))
    ELSE QInf

\* line 74
ProfitFactor(returns) ==
    IF Losses(returns) # << >>
    THEN IF QIsZero(QSum(Losses(returns)))
         THEN DividedByZero
         ELSE QAbs(QDiv(QSum(Wins(returns)), QSum(Losses(returns))))
    ELSE QInf

\* line 75
CalmarRatio(returns) ==
    LET max_drawdown == calculate_max_drawdown(returns)
    IN  IF ~QIsZero(max_drawdown)
        THEN QDiv(QMul(mean(returns), QOf(TradingDays, 1)), QAbs(max_drawdown))
        ELSE QZero

\* lines 58-84 with benchmark_returns = None.  'Volatility' and 'Sharpe Ratio'
\* (lines 68-69) are square roots and are left out of the mapping.
calculate_performance_metrics(list) ==
    IF Len(list) = 0
    THEN << >>
    ELSE LET returns == Series(list)
             n == Len(returns)
         IN  ("Total Return" :> QSub(prod(returns, n), QOne))
          @@ ("Annualized Return" :> Annualized(prod(returns, n), n))
          @@ ("Max Drawdown" :> calculate_max_drawdown(returns))
          @@ ("Win Rate" :> QOf(Len(Wins(returns)), n))
          @@ ("Average Win" :>
                 IF Wins(returns) # << >> THEN mean(Wins(returns)) ELSE QZero)
          @@ ("Average Loss" :>
                 IF Losses(returns) # << >> THEN mean(Losses(returns)) ELSE QZero)
          @@ ("Profit Factor" :> ProfitFactor(returns))
          @@ ("Calmar Ratio" :> CalmarRatio(returns))

\* a count of the trades with a non-negative pnl
CountNotLosing(trades) == Len(SelectSeq(trades, LAMBDA t : t.pnl >= 0))

\* line 101
CountWinning(trades) == Len(SelectSeq(trades, LAMBDA t : t.pnl > 0))

\* line 102
CountLosing(trades) == Len(SelectSeq(trades, LAMBDA t : t.pnl < 0))

\* lines 92-110
analyze_trade_distribution(trades) ==
    IF Len(trades) = 0
    THEN << >>
    ELSE LET pnl == [i \in 1..Len(trades) |-> QOf(trades[i].pnl, 1)]
             duration == [i \in 1..Len(trades) |-> QOf(trades[i].duration, 1)]
             n == Len(trades)
         IN  ("Total Trades" :> n)
          @@ ("Winning Trades" :> CountWinning(trades))
          @@ ("Losing Trades" :> CountLosing(trades))
          @@ ("Average Trade Duration" :> mean(duration))
          @@ ("Best Trade" :>
                 pnl[CHOOSE i \in 1..n : \A j \in 1..n : QLeq(pnl[j], pnl[i])])
          @@ ("Worst Trade" :>
                 pnl[CHOOSE i \in 1..n : \A j \in 1..n : QLeq(pnl[i], pnl[j])])
          @@ ("Average Trade PnL" :> mean(pnl))
          @@ ("Trade Frequency" :> QOf(n, TradingDays))

(***************************************************************************)
(* The exit check of the risk management.  test_strategy.py (lines 144-167)*)
(* calls check_exit_conditions on a strategy holding a position; the        *)
(* method itself is not in strategy1.py, so it follows its description:     *)
(* the unrealized return of the position is compared with the stop-loss    *)
(* and take-profit thresholds of config.py, the short side inverted.       *)
(***************************************************************************)
\* config.py line 23, a stop-loss of 5% in its place
STOP_LOSS_PCT_wide == <<5, 100>>

\* config.py line 23
STOP_LOSS_PCT == <<3, 100>>

\* config.py line 24
TAKE_PROFIT_PCT == <<6, 100>>

\* the entry price of the position and the prices it is checked at
EntryPrices == {100}

ExitPrices == 90..110

Sides == {"long", "short"}

ExitInputs == [entry_price : EntryPrices, side : Sides, price : ExitPrices]

unrealized_return(position) ==
    IF position.side = "long"
    THEN QOf(position.price - position.entry_price, position.entry_price)
    ELSE QOf(position.entry_price - position.price, position.entry_price)

check_exit(position) ==
    LET ret == unrealized_return(position)
    IN  IF QLeq(ret, QNeg(QOf(STOP_LOSS_PCT[1], STOP_LOSS_PCT[2])))
        THEN "StopLoss"
        ELSE IF QLeq(QOf(TAKE_PROFIT_PCT[1], TAKE_PROFIT_PCT[2]), ret)
             THEN "TakeProfit"
             ELSE "None"

(***************************************************************************)
(* The functions applied to their arguments                                *)
(***************************************************************************)
strategy_vars ==
    <<evt, hold_N_assets, rebalance_counter, historical_data, event, outcome,
      sent, momentum_scores, longs, shorts, flats, portfolio_value, ref_phase>>

FunctionInit ==
    /\ evt = "None"
    /\ hold_N_assets = MaxHold
    /\ rebalance_counter = 0
    /\ historical_data = << >>
    /\ event = "__init__"
    /\ outcome = "constructed"
    /\ sent = << >>
    /\ momentum_scores = << >>
    /\ longs = << >>
    /\ shorts = << >>
    /\ flats = << >>
    /\ portfolio_value = 0
    /\ ref_phase = 0
    /\ called = "none"
    /\ result = << >>
    /\ \/ \E returns \in ReturnInputs : args = [returns |-> returns]
       \/ \E trades \in TradeInputs : args = [trades |-> trades]
       \/ \E position \in ExitInputs : args = [position |-> position]

Apply_calculate_performance_metrics ==
    /\ "returns" \in DOMAIN args
    /\ called' = "calculate_performance_metrics"
    /\ result' = calculate_performance_metrics(args.returns)
    /\ UNCHANGED <<args, strategy_vars>>

\* called on a pandas Series, as line 70 does; min() of an empty Series is NaN
Apply_calculate_max_drawdown ==
    /\ "returns" \in DOMAIN args
    /\ args.returns # << >>
    /\ called' = "calculate_max_drawdown"
    /\ result' = calculate_max_drawdown(Series(args.returns))
    /\ UNCHANGED <<args, strategy_vars>>

Apply_analyze_trade_distribution ==
    /\ "trades" \in DOMAIN args
    /\ called' = "analyze_trade_distribution"
    /\ result' = analyze_trade_distribution(args.trades)
    /\ UNCHANGED <<args, strategy_vars>>

Apply_check_exit ==
    /\ "position" \in DOMAIN args
    /\ called' = "check_exit"
    /\ result' = check_exit(args.position)
    /\ UNCHANGED <<args, strategy_vars>>

FunctionNext ==
    \/ Apply_calculate_performance_metrics
    \/ Apply_calculate_max_drawdown
    \/ Apply_analyze_trade_distribution
    \/ Apply_check_exit

FunctionSpec == FunctionInit /\ [][FunctionNext]_vars

(***************************************************************************)
(* Vocabulary of the properties                                            *)
(***************************************************************************)
Reference == instrument_list[1]

\* the last callback was a tick that got past line 68
CycleEntered == outcome \in {"not_enough_data", "no_positions", "traded"}

\* the last callback was a tick whose cycle ranked the universe
CycleRanked == outcome \in {"no_positions", "traded"}

\* this step is a tick of the reference instrument: a tick that adds to its history
ReferenceTick ==
    /\ evt # "None"
    /\ event' = "tick"
    /\ historical_data'[Reference] # historical_data[Reference]

\* this step is a tick of any other instrument, in the universe or not
OtherTick ==
    /\ evt # "None"
    /\ event' = "tick"
    /\ historical_data'[Reference] = historical_data[Reference]

(***************************************************************************)
(* C1. The rebalance cycle is entered on exactly every rebalance_period-th *)
(* tick of the reference instrument, and by no other step, whatever the    *)
(* other instruments deliver in between.                                   *)
(***************************************************************************)
C1_CycleOncePerPeriod ==
    [][ /\ CycleEntered' <=> (ReferenceTick /\ ref_phase' = 0)
        /\ OtherTick => ~CycleEntered' ]_vars

\* a cycle entered on a reference tick that other instruments' ticks preceded
C1_Witness ==
    /\ CycleEntered
    /\ ref_phase = 0
    /\ \E inst \in Universe \ {Reference} : historical_data[inst] # << >>

(***************************************************************************)
(* C2. A cycle sends orders only if every instrument has at least          *)
(* lookback_period closes; a cycle that finds one with fewer sends none,   *)
(* returns normally and leaves the counter at zero at a multiple of the    *)
(* period, so the next attempt is rebalance_period reference ticks later.  *)
(***************************************************************************)
C2_SkipOnShortHistory ==
    /\ sent # << >> =>
           \A inst \in Universe : Len(historical_data[inst]) >= lookback_period
    /\ (CycleEntered /\ \E inst \in Universe :
                            Len(historical_data[inst]) < lookback_period) =>
           /\ outcome = "not_enough_data"
           /\ sent = << >>
           /\ evt # "None"
           /\ rebalance_counter = 0
           /\ ref_phase = 0

\* a skipped cycle although the reference instrument itself had enough closes
C2_Witness ==
    /\ outcome = "not_enough_data"
    /\ Len(historical_data[Reference]) >= lookback_period

(***************************************************************************)
(* Vocabulary of the ranking properties                                    *)
(***************************************************************************)
SeqSet(s) == {s[i] : i \in 1..Len(s)}

NoDuplicates(s) == \A i, j \in 1..Len(s) : s[i] = s[j] => i = j

\* position in the universe order
Pos(inst) == CHOOSE i \in 1..Len(instrument_list) : instrument_list[i] = inst

\* a ranks above b: higher momentum, or equal momentum and earlier in the universe
RanksAbove(a, b) ==
    \/ RatLess(momentum_scores[b], momentum_scores[a])
    \/ RatEq(momentum_scores[a], momentum_scores[b]) /\ Pos(a) < Pos(b)

(***************************************************************************)
(* C3. For every hold count K with 0 <= 2K <= universe size, a cycle that  *)
(* ranks yields K longs, none with less momentum than an instrument left   *)
(* out, K shorts, none with more momentum than an instrument left out, and *)
(* all others flat; the three sets are pairwise disjoint and cover the     *)
(* universe.                                                               *)
(***************************************************************************)
PartitionByMomentum ==
    /\ Len(longs) = hold_N_assets /\ NoDuplicates(longs)
    /\ Len(shorts) = hold_N_assets /\ NoDuplicates(shorts)
    /\ NoDuplicates(flats)
    /\ \A a \in SeqSet(longs), b \in Universe \ SeqSet(longs) :
           ~RatLess(momentum_scores[a], momentum_scores[b])
    /\ \A a \in SeqSet(shorts), b \in Universe \ SeqSet(shorts) :
           ~RatLess(momentum_scores[b], momentum_scores[a])
    /\ SeqSet(longs) \cap SeqSet(shorts) = {}
    /\ SeqSet(flats) = Universe \ (SeqSet(longs) \cup SeqSet(shorts))

C3_TopBottomPartition ==
    (CycleRanked /\ 0 <= 2 * hold_N_assets
                 /\ 2 * hold_N_assets <= Len(instrument_list)) =>
        PartitionByMomentum

(***************************************************************************)
(* C4. Ties are broken by universe order: whatever is in the long set      *)
(* ranks above whatever is not (higher momentum, or equal momentum and     *)
(* earlier in instrument_list), and whatever is not in the short set ranks *)
(* above whatever is. This fixes both sets given the scores, so equal      *)
(* scores always give the same partition.                                  *)
(***************************************************************************)
C4_TieBreakByUniverseOrder ==
    CycleRanked =>
        /\ \A a \in SeqSet(longs), b \in Universe \ SeqSet(longs) : RanksAbove(a, b)
        /\ \A a \in Universe \ SeqSet(shorts), b \in SeqSet(shorts) : RanksAbove(a, b)

\* a tie decided at the edge of the long set and one at the edge of the short set
C4_Witness ==
    /\ CycleRanked
    /\ \E a \in SeqSet(longs), b \in Universe \ SeqSet(longs) :
           RatEq(momentum_scores[a], momentum_scores[b])
    /\ \E a \in Universe \ SeqSet(shorts), b \in SeqSet(shorts) :
           RatEq(momentum_scores[a], momentum_scores[b])

(***************************************************************************)
(* C5. A configuration with 2K > universe size is refused at construction, *)
(* so no cycle ranks under it and no cycle puts an instrument in both the  *)
(* long and the short set.                                                 *)
(***************************************************************************)
C5_InvalidConfigurationRefused ==
    /\ 2 * hold_N_assets > Len(instrument_list) => ~CycleRanked
    /\ SeqSet(longs) \cap SeqSet(shorts) = {}

(***************************************************************************)
(* Vocabulary of the order properties                                      *)
(***************************************************************************)
\* the close an order of this cycle was sized on
LastPrice(inst) == historical_data[inst][Len(historical_data[inst])]

RatAdd(a, b) == <<a[1] * b[2] + b[1] * a[2], a[2] * b[2]>>

\* |quantity * price|
Notional(order) ==
    LET q == order.quantity
        n == q[1] * LastPrice(order.instrument)
    IN  <<IF n < 0 THEN -n ELSE n, q[2]>>

RECURSIVE GrossNotional(_)
GrossNotional(orders) ==
    IF orders = << >> THEN <<0, 1>>
    ELSE RatAdd(Notional(Head(orders)), GrossNotional(Tail(orders)))

(***************************************************************************)
(* C6. Equal weights: in a cycle that trades, the orders after the flat    *)
(* ones are the longs and then the shorts; a long target times its last    *)
(* close times the number of positions is the portfolio value, a short     *)
(* target is the same negated, and the absolute notionals of the long and  *)
(* short orders add up to the portfolio value the cycle read.              *)
(***************************************************************************)
C6_EqualWeightAllocation ==
    outcome = "traded" =>
        LET n == Len(longs) + Len(shorts)
            f == Len(flats)
        IN  /\ Len(sent) = f + n
            /\ \A i \in 1..Len(longs) :
                   LET o == sent[f + i]
                   IN  /\ o.instrument = longs[i]
                       /\ o.quantity[1] * LastPrice(longs[i]) * n
                              = portfolio_value * o.quantity[2]
            /\ \A i \in 1..Len(shorts) :
                   LET o == sent[f + Len(longs) + i]
                   IN  /\ o.instrument = shorts[i]
                       /\ o.quantity[1] * LastPrice(shorts[i]) * n
                              = -portfolio_value * o.quantity[2]
            /\ RatEq(GrossNotional(SubSeq(sent, f + 1, f + n)), <<portfolio_value, 1>>)

\* a long and a short sized on different closes
C6_Witness ==
    /\ outcome = "traded"
    /\ \E a \in SeqSet(longs), b \in SeqSet(shorts) : LastPrice(a) # LastPrice(b)

(***************************************************************************)
(* C7. Every cycle sends either no order or exactly one TARGET_SHARES      *)
(* order for every instrument of the universe: target 0 for each flat      *)
(* instrument and a nonzero target for each long and each short.           *)
(***************************************************************************)
OneOrderEach ==
    /\ \A i \in 1..Len(sent) :
           /\ sent[i].instrument \in Universe
           /\ sent[i].mode = "TARGET_SHARES"
    /\ \A inst \in Universe :
           /\ Cardinality({i \in 1..Len(sent) : sent[i].instrument = inst}) = 1
           /\ \A i \in 1..Len(sent) :
                  sent[i].instrument = inst =>
                      (sent[i].quantity[1] = 0 <=> inst \in SeqSet(flats))

C7_AllOrNothing == CycleEntered => (sent = << >> \/ OneOrderEach)

(***************************************************************************)
(* C8. A cycle computes momentum iff no instrument has fewer than          *)
(* lookback_period closes, and then each score is the latest close divided *)
(* by the close lookback_period places from the end, minus one.            *)
(***************************************************************************)
RECURSIVE Reversed(_)
Reversed(s) == IF s = << >> THEN << >> ELSE Append(Reversed(Tail(s)), Head(s))

C9_AcknowledgementsChangeNothing ==
    [][ /\ event' = "order" =>
               /\ sent' = << >>
               /\ rebalance_counter' = rebalance_counter
               /\ historical_data' = historical_data
        /\ sent' # << >> => (event' = "tick" /\ outcome' = "traded") ]_vars

\* an acknowledgement handled in the middle of a period, all histories filled
C9_Witness ==
    /\ event = "order"
    /\ rebalance_counter > 0
    /\ \A inst \in Universe : Len(historical_data[inst]) >= lookback_period

(***************************************************************************)
(* C10. Once started, every step leaves each history a prefix of what it   *)
(* becomes; a tick of instrument X changes no history but X's, to which it *)
(* appends one close, and a tick of an instrument outside the universe and *)
(* an order acknowledgement change none.                                   *)
(***************************************************************************)
IsPrefix(s, t) == Len(s) <= Len(t) /\ SubSeq(t, 1, Len(s)) = s

C10_HistoryOnlyGrows ==
    [][ evt # "None" =>
          /\ DOMAIN historical_data' = DOMAIN historical_data
          /\ \A inst \in Universe :
                 IsPrefix(historical_data[inst], historical_data'[inst])
          /\ \A X \in AllInstruments :
                 (event' = "tick" /\ \E close \in Prices : on_marketdatafeed(X, close)) =>
                     /\ \A Y \in Universe \ {X} :
                            historical_data'[Y] = historical_data[Y]
                     /\ X \in Universe =>
                            Len(historical_data'[X]) = Len(historical_data[X]) + 1
          /\ event' = "order" => historical_data' = historical_data ]_vars

\* a tick taken when the reference history already exceeds the lookback window
C10_Witness ==
    /\ event = "tick"
    /\ Len(historical_data[Reference]) > lookback_period + 1
    /\ \E inst \in Universe \ {Reference} : historical_data[inst] # << >>

(***************************************************************************)
(* C11. While the reference instrument delivers no tick, nothing moves the *)
(* rebalance counter: every step that is not a reference tick, however     *)
(* many ticks the other instruments deliver, leaves the counter where it   *)
(* is, enters no cycle and emits no order.                                 *)
(***************************************************************************)
C11_StalledReferenceBlocksRebalance ==
    [][ ~ReferenceTick =>
          /\ rebalance_counter' = rebalance_counter
          /\ ~CycleEntered'
          /\ sent' = << >> ]_vars

\* the reference stopped one tick short of the period and every other
\* instrument has since delivered all the closes a cycle would need
C11_Witness ==
    /\ event = "tick"
    /\ outcome = "no_rebalance"
    /\ rebalance_counter = rebalance_period - 1
    /\ Len(historical_data[Reference]) = rebalance_period - 1
    /\ \A inst \in Universe \ {Reference} :
           Len(historical_data[inst]) >= lookback_period

(***************************************************************************)
(* C12. For every non-empty return series the maximum drawdown is at most  *)
(* 0, as calculate_max_drawdown returns it and as the metrics report it,   *)
(* and it is 0 only when the cumulative path cumprod(1 + r) never falls    *)
(* from one period to the next.                                            *)
(***************************************************************************)
NonDecreasing(path) ==
    \A t \in 1..(Len(path) - 1) : QLeq(path[t], path[t + 1])

DrawdownAsClaimed(returns, max_drawdown) ==
    /\ QLeq(max_drawdown, QZero)
    /\ QIsZero(max_drawdown) => NonDecreasing(cumprod(Series(returns)))

C12_MaxDrawdownNeverPositive ==
    /\ called = "calculate_max_drawdown" =>
           DrawdownAsClaimed(args.returns, result)
    /\ (called = "calculate_performance_metrics" /\ args.returns # << >>) =>
           DrawdownAsClaimed(args.returns, result["Max Drawdown"])

\* a series that rises and then falls, with its negative drawdown
C12_Witness ==
    /\ called = "calculate_max_drawdown"
    /\ QLess(result, QZero)
    /\ \E t \in 1..(Len(args.returns) - 1) :
           args.returns[t][1] > 0 /\ args.returns[t + 1][1] < 0

(***************************************************************************)
(* C13. The Calmar ratio of the metrics is the 'Annualized Return' of the  *)
(* same metrics, prod(1 + r) ^ (252 / n) - 1, divided by the absolute      *)
(* maximum drawdown, and 0 when the maximum drawdown is 0.                 *)
(***************************************************************************)
\* x = base ^ (p / q) - 1 for a positive base: x + 1 >= 0 and
\* (x + 1) ^ q = base ^ p
IsAnnualized(x, annualized) ==
    LET growth == QAdd(x, QOne)
    IN  /\ ~growth.neg
        /\ QEq(QPow(growth, annualized.exponent[2]),
               QPow(annualized.base, annualized.exponent[1]))

C13_CalmarFromAnnualizedReturn ==
    (called = "calculate_performance_metrics" /\ args.returns # << >>) =>
        LET max_drawdown == result["Max Drawdown"]
            calmar == result["Calmar Ratio"]
        IN  IF QIsZero(max_drawdown)
            THEN QIsZero(calmar)
            ELSE IsAnnualized(QMul(calmar, QAbs(max_drawdown)),
                              result["Annualized Return"])

(***************************************************************************)
(* C14. For every non-empty return series the profit factor is             *)
(* |sum of the positive returns| / |sum of the negative returns| when some *)
(* return is negative and +infinity when none is, and in neither case is   *)
(* anything divided by zero.                                               *)
(***************************************************************************)
SomeLoss(list) == \E i \in 1..Len(list) : list[i][1] < 0

C14_ProfitFactor ==
    (called = "calculate_performance_metrics" /\ args.returns # << >>) =>
        LET returns == Series(args.returns)
            gains == QAbs(QSum(Wins(returns)))
            losses == QAbs(QSum(Losses(returns)))
            profit_factor == result["Profit Factor"]
        IN  /\ profit_factor # DividedByZero
            /\ IF SomeLoss(args.returns)
               THEN /\ ~QIsZero(losses)
                    /\ profit_factor.den # << >>
                    /\ QEq(QMul(profit_factor, losses), gains)
               ELSE profit_factor = QInf

\* a series with winning and losing periods, and its finite profit factor
C14_Witness ==
    /\ called = "calculate_performance_metrics"
    /\ SomeLoss(args.returns)
    /\ \E i \in 1..Len(args.returns) : args.returns[i][1] > 0
    /\ ~QIsZero(result["Profit Factor"])

(***************************************************************************)
(* C15. For the series [0.01, -0.02, 0.03, -0.01, 0.02] the metrics give a *)
(* total return of prod(1 + r) - 1 and a win rate of 0.6.  The product is  *)
(* 1.01 * 0.98 * 1.03 * 0.99 * 1.02 = 1.0294850412, so the total return is *)
(* 0.0294850412, which is 0.0295 to four decimals.                         *)
(***************************************************************************)
\* |x - n / d| <= 1 / tolerance, for small naturals n, d and tolerance
Within(x, n, d, tolerance) ==
    QLeq(QAbs(QSub(x, QOf(n, d))), QOf(1, tolerance))

\* 0.0294850412 = 294850412 / 10^10
ExampleTotalReturn ==
    QMake(FALSE, BigOf(294850412), BigTimes(BigOf(100000), 100000))

OnExample ==
    /\ called = "calculate_performance_metrics"
    /\ args = [returns |-> ExampleReturns]

C15_ExampleMetrics ==
    OnExample =>
        /\ QEq(result["Total Return"], ExampleTotalReturn)
        /\ Within(result["Total Return"], 295, 10000, 20000)
        /\ QEq(result["Win Rate"], QOf(6, 10))

C15_Witness == OnExample /\ QLess(QZero, result["Total Return"])

\* C15 as stated: the total return is 0.0289 to the four decimals given,
\* taken generously as within 0.0001 of it
C15_ExampleTotalReturnStated ==
    OnExample =>
        /\ Within(result["Total Return"], 289, 10000, 10000)
        /\ QEq(result["Win Rate"], QOf(6, 10))

(***************************************************************************)
(* C16. An empty trade list and an empty return series each give the empty *)
(* mapping.  For a non-empty trade list 'Total Trades' is the number of    *)
(* trades, 'Winning Trades' and 'Losing Trades' count the trades with a    *)
(* positive and with a negative pnl, so that their sum is at most 'Total   *)
(* Trades' and a trade with pnl 0 is in neither, and 'Trade Frequency' is  *)
(* the number of trades divided by 252.                                    *)
(***************************************************************************)
TradesWhere(trades, Test(_)) ==
    Cardinality({i \in 1..Len(trades) : Test(trades[i].pnl)})

C16_EmptyInputsAndTradeCounts ==
    /\ called = "calculate_performance_metrics" =>
           (args.returns = << >> => result = << >>)
    /\ called = "analyze_trade_distribution" =>
           IF args.trades = << >>
           THEN result = << >>
           ELSE LET n == Len(args.trades)
                IN  /\ result["Total Trades"] = n
                    /\ result["Winning Trades"] =
                           TradesWhere(args.trades, LAMBDA pnl : pnl > 0)
                    /\ result["Losing Trades"] =
                           TradesWhere(args.trades, LAMBDA pnl : pnl < 0)
                    /\ result["Winning Trades"] + result["Losing Trades"]
                           <= result["Total Trades"]
                    /\ QEq(result["Trade Frequency"], QOf(n, 252))

\* a trade list with a winning, a losing and a zero-pnl trade
C16_Witness ==
    /\ called = "analyze_trade_distribution"
    /\ TradesWhere(args.trades, LAMBDA pnl : pnl > 0) > 0
    /\ TradesWhere(args.trades, LAMBDA pnl : pnl < 0) > 0
    /\ TradesWhere(args.trades, LAMBDA pnl : pnl = 0) > 0
    /\ result["Total Trades"] = Len(args.trades)

(***************************************************************************)
(* C17. For a long position entered at 100, with the stop-loss of 3% and   *)
(* the take-profit of 6%, the exit check returns StopLoss at the prices 96 *)
(* and 95, TakeProfit at 107 and no exit at 101.  For either side an exit  *)
(* is signalled exactly when the unrealized return is at or beyond one of  *)
(* the two thresholds.                                                     *)
(***************************************************************************)
\* a hundred times the gain of the position per unit held
GainTimes100(position) ==
    100 * (IF position.side = "long"
           THEN position.price - position.entry_price
           ELSE position.entry_price - position.price)

CounterInRange(counter) == 0 <= counter /\ counter < rebalance_period

C18_CounterBelowPeriod ==
    [][ /\ event' = "tick" => CounterInRange(rebalance_counter')
        /\ OtherTick =>
               /\ CounterInRange(rebalance_counter)
               /\ rebalance_counter' = rebalance_counter
               /\ ~CycleEntered'
               /\ sent' = << >> ]_vars

\* a cycle has just reset the counter
C18_Witness ==
    /\ event = "tick"
    /\ CycleEntered
    /\ rebalance_counter = 0
    /\ Len(historical_data[Reference]) = 2 * rebalance_period

(***************************************************************************)
(* C20. A rebalance cycle happens within one tick of the reference         *)
(* instrument and reads every history as that tick leaves it: the scores   *)
(* are taken from, and the targets are sized on, the latest close of each  *)
(* instrument at that tick, the close of the tick itself included.  A tick *)
(* of another instrument that follows sends nothing, so its close changes  *)
(* no order of that cycle and is first read by the next one.               *)
(***************************************************************************)
\* the close of inst that is k places from the end once the step is taken
CloseAfter(inst, k) ==
    historical_data'[inst][Len(historical_data'[inst]) - k + 1]

C20_CycleReadsHistoryAtItsTick ==
    [][ /\ CycleRanked' =>
               /\ ReferenceTick
               /\ \A inst \in Universe :
                      RatEq(momentum_scores'[inst],
                            <<CloseAfter(inst, 1) - CloseAfter(inst, lookback_period),
                              CloseAfter(inst, lookback_period)>>)
               /\ \A i \in 1..Len(sent') :
                      LET o == sent'[i]
                          n == Len(longs') + Len(shorts')
                          size == o.quantity[1] * CloseAfter(o.instrument, 1) * n
                      IN  \/ o.quantity[1] = 0
                          \/ size = portfolio_value' * o.quantity[2]
                          \/ size = -portfolio_value' * o.quantity[2]
        /\ OtherTick => (sent' = << >> /\ ~CycleRanked') ]_vars

\* a cycle that reads a close of the second instrument delivered after the
\* instrument had a full lookback window, and different from the one before
C20_Witness ==
    /\ event = "tick"
    /\ outcome = "traded"
    /\ LET h == historical_data[instrument_list[2]]
       IN  /\ Len(h) > lookback_period
           /\ h[Len(h)] # h[Len(h) - 1]
    /\ Len(historical_data[Reference]) >= 2 * rebalance_period

(***************************************************************************)
(* C19. Under a reference feed that keeps ticking: once every instrument   *)
(* of the universe has lookback_period closes, a cycle that sends orders   *)
(* follows, at the next reference tick that completes a period, whether or *)
(* not earlier cycles were skipped for lack of history; and it follows     *)
(* again from every later state, so the trading cycles recur for as long   *)
(* as the feed of the model has a full period of reference ticks left.     *)
(***************************************************************************)
EnoughHistory ==
    /\ evt # "None"
    /\ \A inst \in Universe : Len(historical_data[inst]) >= lookback_period

\* the reference ticks still to come before the one that completes a period
TicksToGo == rebalance_period - ref_phase

\* the reference feed of the model reaches that tick
PeriodCompletes == Len(historical_data[Reference]) + TicksToGo <= MaxRefHist

C19_RebalanceEventuallyTrades ==
    (EnoughHistory /\ PeriodCompletes) ~> (outcome = "traded")

\* a cycle trades at the end of the reference feed, after instruments whose
\* history was filled by ticks alone had been short of closes
C19_Witness ==
    /\ outcome = "traded"
    /\ EnoughHistory
    /\ Len(historical_data[Reference]) = MaxRefHist
    /\ ref_phase = 0

====
